---- MODULE Spec2Model ----
(***************************************************************************)
(* The results view of the F1 dashboard (my-app/src/pages/Results, kept in *)
(* src/my-app/src/pages/Dashboard.jsx lines 96-523) as a state machine.    *)
(*                                                                         *)
(* One action is one turn of the JavaScript run loop: a user event handler *)
(* or the continuation of one settled request, together with the React     *)
(* commit of the state updates it batches and the effects that commit      *)
(* runs (Render).  A request is a record of the values its closure         *)
(* captured when it was launched; the requests in flight are bags, and any *)
(* of them may settle next, with success or with failure.                  *)
(*                                                                         *)
(* The state updates of one handler or continuation are committed together *)
(* (React batches them), and the effects whose dependencies changed run in *)
(* the order the component declares them: schedule, session list, results. *)
(* A settled request acts on the values its closure captured at launch and *)
(* on no others: nothing compares them with what is selected by then.      *)
(***************************************************************************)
EXTENDS Integers, Sequences, FiniteSets, Bags, TLC

VARIABLES
  availableYears,     \* useState([])                       line 116
  selectedYear,       \* useState(new Date().getFullYear()) line 117
  raceSchedule,       \* useState([])                       line 118
  selectedRound,      \* useState(null)                     line 119
  sessionType,        \* useState('Race')                   line 120
  resultsData,        \* useState([])                       line 121
  availableSessions,  \* useState([])                       line 122
  sessionsIsDefault,  \* availableSessions is the very array defaultSessionTypes
  loading,            \* useState(false)                    line 115
  sessionsLoading,    \* useState(false)                    line 123
  yearsPending,       \* getAvailableYears() in flight
  schedulePending,    \* bag of getRaceSchedule requests in flight
  sessionsPending,    \* bag of fetchAvailableSessions calls in flight
  resultsPending,     \* bag of fetchResults calls in flight
  ev,                 \* the turn of the run loop that produced this state
  launched,           \* how many requests the effects have launched since mount
  budget,             \* how many requests the effects may launch in this run
  repairsSinceChange, \* session-key repairs since the last selector change
  tableKey,           \* the sessionType getColumns() is called with
  tableRow,           \* a record of the Table's dataSource
  tableCells,         \* the cells the Table shows for it, column by column
  isDarkMode,         \* ThemeContext: useState(...)     ThemeContext.js line 14
  localStorageTheme,  \* localStorage item 'theme'
  themeAtLoad,        \* what the item held when the page was last loaded
  uiEvent,            \* the turn that produced the table and the theme shown
  standingsRow,       \* a record of StandingsTable's data
  standingsCells,     \* what its POINTS CHANGE and EVO columns show for it
  cardYear,           \* ScheduleCard: the year prop              line 532
  cardSchedule,       \* useState(null): the year whose weekend schedule is held
  cardCircuit,        \* useState(null): the year whose circuit info is held
  cardLoading,        \* useState(true)                          line 535
  cardCalls,          \* bag of fetchData calls with a request in flight
  cardEv,             \* the turn of the run loop that produced the card's state
  cardLaunched        \* how many fetchData calls year changes have launched

vars == <<availableYears, selectedYear, raceSchedule, selectedRound, sessionType,
          resultsData, availableSessions, sessionsIsDefault, loading,
          sessionsLoading, yearsPending, schedulePending, sessionsPending,
          resultsPending, ev, launched, budget, repairsSinceChange>>

uiVars == <<tableKey, tableRow, tableCells, isDarkMode, localStorageTheme,
            themeAtLoad, uiEvent>>

standingsVars == <<standingsRow, standingsCells>>

cardVars == <<cardYear, cardSchedule, cardCircuit, cardLoading, cardCalls,
              cardEv, cardLaunched>>

-----------------------------------------------------------------------------
(* Bounds of the model *)

\* After mount at most this many schedule, session-list and results requests
\* are launched; a turn whose effects would launch more does not happen.
MaxLaunches == 7

-----------------------------------------------------------------------------
(* Values *)

\* JavaScript null (the initial selectedRound); falsy like 0.
Null == 0

\* new Date().getFullYear() at mount.
CurrentYear == 2026

Truthy(x) == x # Null

defaultSessionTypes ==
  << [key |-> "Practice 1", value |-> "FP1", label |-> "Practice 1"],
     [key |-> "Practice 2", value |-> "FP2", label |-> "Practice 2"],
     [key |-> "Practice 3", value |-> "FP3", label |-> "Practice 3"],
     [key |-> "Qualifying", value |-> "Q",   label |-> "Qualifying"],
     [key |-> "Race",       value |-> "R",   label |-> "Race"] >>

-----------------------------------------------------------------------------
(* The backend, as far as the view sees it: the bodies a request can be    *)
(* answered with.  Which body answers a request is chosen when it settles. *)

YearResponses == { <<>>, <<2024, 2025>> }

ScheduleResponses(year) ==
  { <<>>,
    << [season |-> year, round |-> 1], [season |-> year, round |-> 2] >> }

SprintWeekend ==
  << [name |-> "Sprint", session |-> "S"],
     [name |-> "Race",   session |-> "R"] >>

PracticeOnly ==
  << [name |-> "Practice 1", session |-> "FP1"],
     [name |-> "Practice 2", session |-> "FP2"] >>

\* response.data.sessions_available; <<>> also stands for an absent field
\* (sessions_available || []).
SessionResponses == { <<>>, SprintWeekend, PracticeOnly }

\* A results body either carries rows or carries none (for the race endpoint:
\* no results field; for the others: an empty or null body).
ResultResponses == { "rows", "none" }

-----------------------------------------------------------------------------
(* Pure helpers of the component *)

RECURSIVE MaxFrom(_, _, _)
MaxFrom(years, i, acc) ==
  IF i > Len(years) THEN acc
  ELSE MaxFrom(years, i + 1, IF years[i] > acc THEN years[i] ELSE acc)

\* The first year of the list instead of the largest.
FirstYear(years) == years[1]

\* Math.max(...years), for a non-empty list.
MathMax(years) == MaxFrom(years, 2, years[1])

\* sessions.map(session => ({key: session.name, value: session.session, label: session.name}))
FormatSessions(sessions) ==
  [i \in DOMAIN sessions |->
     [key |-> sessions[i].name, value |-> sessions[i].session,
      label |-> sessions[i].name]]

Keys(list) == { list[i].key : i \in DOMAIN list }

\* list.some(s => s.key === key)
SomeKey(list, key) == \E i \in DOMAIN list : list[i].key = key

\* list.find(s => s.key === key), for a key the list holds: the first such entry.
FindKey(list, key) ==
  list[CHOOSE i \in DOMAIN list :
         /\ list[i].key = key
         /\ \A j \in DOMAIN list : list[j].key = key => i <= j]

\* availableSessions.length > 0 ? availableSessions : defaultSessionTypes
ActiveList(sessions) == IF Len(sessions) > 0 THEN sessions ELSE defaultSessionTypes

ActiveSessions == ActiveList(availableSessions)

\* allSessions.find(s => s.key === sessionType)?.value
SessionValue(sessions, key) ==
  IF SomeKey(ActiveList(sessions), key)
    THEN FindKey(ActiveList(sessions), key).value
    ELSE "undefined"

\* The session key after a non-empty list was applied by a call that captured
\* `captured` as sessionType; `current` is the state's key, kept when the
\* captured key is in the list.
RepairedSessionType(formatted, captured, current) ==
  IF Len(formatted) > 0 /\ ~SomeKey(formatted, captured)
    THEN IF SomeKey(formatted, "Race")
           THEN FindKey(formatted, "Race").key
           ELSE formatted[1].key
    ELSE current

\* One endpoint for the race and every sprint-weekend race-like session.
SprintAsRace(key) ==
  IF key = "Race" \/ key = "Sprint" THEN "race-results"
  ELSE IF key = "Qualifying" THEN "qualifying-results"
  ELSE "practice-results"

\* The endpoint fetchResults calls for a session key.
Endpoint(key) ==
  IF key = "Race" THEN "race-results"
  ELSE IF key = "Qualifying" THEN "qualifying-results"
  ELSE "practice-results"

\* The query parameters of the call: { year, round } for the race and
\* qualifying endpoints, { year, round, session } for the practice endpoint.
Params(endpoint, year, round, session) ==
  IF endpoint = "practice-results"
    THEN <<year, round, session>>
    ELSE <<year, round>>

\* The rows a results request is answered with, when it is answered with rows.
RowsFor(f) ==
  << [endpoint |-> Endpoint(f.sessionType), year |-> f.year, round |-> f.round,
      sessionType |-> f.sessionType,
      session |-> IF Endpoint(f.sessionType) = "practice-results"
                    THEN f.sessionValue ELSE "-"] >>

\* response.data: the race endpoint answers with an object that carries the
\* rows under `results` or carries no such field; the other endpoints answer
\* with the array of rows or with nothing.
ResponseBody(f, resp) ==
  IF f.endpoint = "race-results"
    THEN IF resp = "rows"
           THEN [type |-> "object", results |-> RowsFor(f)]
           ELSE [type |-> "object"]
    ELSE IF resp = "rows"
           THEN [type |-> "array", items |-> RowsFor(f)]
           ELSE [type |-> "null"]

\* response.data.results || []
ResultsOrEmpty(body) ==
  IF "results" \in DOMAIN body THEN body.results ELSE <<>>

\* response.data || []
BodyOrEmpty(body) ==
  IF body.type = "null" THEN <<>>
  ELSE IF body.type = "array" THEN body.items
  ELSE body

\* What setResultsData receives when a results request succeeds.
ResultRows(f, resp) ==
  IF f.sessionType = "Race"
    THEN ResultsOrEmpty(ResponseBody(f, resp))
    ELSE BodyOrEmpty(ResponseBody(f, resp))

\* schedule[0].round when the schedule is non-empty, else the round as it was.
RoundAfterSchedule(data, round) == IF Len(data) > 0 THEN data[1].round ELSE round

\* Math.max(...years) when the list is non-empty, else the year as it was.
YearAfterYears(years, year) == IF Len(years) > 0 THEN MathMax(years) ELSE year

-----------------------------------------------------------------------------
(* Requests, as the closures that launched them see them *)

ScheduleRequest(year) == [year |-> year]

\* fetchAvailableSessions captures selectedYear, selectedRound and sessionType.
SessionsRequest(year, round, key) ==
  [year |-> year, round |-> round, sessionType |-> key]

\* fetchResults captures selectedYear, selectedRound, sessionType and the
\* session list, from which it takes the short code before the request.
ResultsRequest(year, round, key, sessions) ==
  [year |-> year, round |-> round, sessionType |-> key,
   sessionValue |-> SessionValue(sessions, key),
   endpoint |-> Endpoint(key),
   params |-> Params(Endpoint(key), year, round, SessionValue(sessions, key))]

One(x) == SetToBag({x})

NoFetch == [year |-> Null]

\* message.error(...) calls of a turn: one in fetchResults' catch, none elsewhere.
MessageErrors(kind) == IF kind = "resultsFail" THEN 1 ELSE 0

Event(kind, fetch, resp) ==
  [kind |-> kind, fetch |-> fetch, resp |-> resp, messages |-> MessageErrors(kind)]

-----------------------------------------------------------------------------
(* The commit of one batch of state updates and the effects it runs.       *)
(* n holds the values the handler has set (and the requests still in       *)
(* flight); an effect runs when one of its dependencies differs from the   *)
(* previous render's.                                                      *)

\* useEffect(..., [selectedYear]): if (selectedYear) getRaceSchedule(...)
ScheduleEffectRuns(n) ==
  /\ n.selectedYear # selectedYear
  /\ Truthy(n.selectedYear)

\* fetchAvailableSessions is a new callback when selectedYear, selectedRound
\* or sessionType changed.
CallbackChanged(n) ==
  \/ n.selectedYear # selectedYear
  \/ n.selectedRound # selectedRound
  \/ n.sessionType # sessionType

\* A fetchAvailableSessions that also depends on the availableSessions array.
SessionsEffectOnList(n) ==
  /\ (CallbackChanged(n) \/ n.refChanged)
  /\ Truthy(n.selectedYear) /\ Truthy(n.selectedRound)

\* useEffect(..., [fetchAvailableSessions]); the call returns at once when
\* the year or the round is not set.
SessionsEffectRuns(n) ==
  /\ CallbackChanged(n)
  /\ Truthy(n.selectedYear) /\ Truthy(n.selectedRound)

\* A results effect that compares the session list by content.
ResultsEffectByContent(n) ==
  /\ (CallbackChanged(n) \/ n.availableSessions # availableSessions)
  /\ Truthy(n.selectedYear) /\ Truthy(n.selectedRound)

\* useEffect(..., [fetchResults]); fetchResults also depends on the
\* availableSessions array (by reference).
ResultsEffectRuns(n) ==
  /\ (CallbackChanged(n) \/ n.refChanged)
  /\ Truthy(n.selectedYear) /\ Truthy(n.selectedRound)

Render(n) ==
  LET sched == IF ScheduleEffectRuns(n)
                 THEN n.schedulePending (+) One(ScheduleRequest(n.selectedYear))
                 ELSE n.schedulePending
      sess  == IF SessionsEffectRuns(n)
                 THEN n.sessionsPending (+)
                      One(SessionsRequest(n.selectedYear, n.selectedRound, n.sessionType))
                 ELSE n.sessionsPending
      res   == IF ResultsEffectRuns(n)
                 THEN n.resultsPending (+)
                      One(ResultsRequest(n.selectedYear, n.selectedRound,
                                         n.sessionType, n.availableSessions))
                 ELSE n.resultsPending
      launches == BagCardinality(sched) - BagCardinality(n.schedulePending)
                  + BagCardinality(sess) - BagCardinality(n.sessionsPending)
                  + BagCardinality(res) - BagCardinality(n.resultsPending)
  IN  /\ launched + launches <= budget
      /\ budget' = budget
      /\ UNCHANGED <<uiVars, standingsVars, cardVars>>
      /\ launched' = launched + launches
      /\ selectedYear' = n.selectedYear
      /\ selectedRound' = n.selectedRound
      /\ sessionType' = n.sessionType
      /\ availableSessions' = n.availableSessions
      /\ sessionsIsDefault' = n.sessionsIsDefault
      /\ resultsData' = n.resultsData
      /\ schedulePending' = sched
      /\ sessionsPending' = sess
      /\ resultsPending' = res
      \* setSessionsLoading(true) / setLoading(true) at the start of the calls
      /\ sessionsLoading' = (SessionsEffectRuns(n) \/ n.sessionsLoading)
      /\ loading' = (ResultsEffectRuns(n) \/ n.loading)

\* The state as it is, as the starting point of a handler's updates.
Current ==
  [selectedYear |-> selectedYear, selectedRound |-> selectedRound,
   sessionType |-> sessionType, availableSessions |-> availableSessions,
   sessionsIsDefault |-> sessionsIsDefault, refChanged |-> FALSE,
   resultsData |-> resultsData, loading |-> loading,
   sessionsLoading |-> sessionsLoading,
   schedulePending |-> schedulePending, sessionsPending |-> sessionsPending,
   resultsPending |-> resultsPending]

-----------------------------------------------------------------------------
(* Mount: the first render and its effects.  The years request and the     *)
(* schedule request for the clock's year are launched; the session and     *)
(* results calls return at once because no round is set.                   *)

ResultsMount ==
  /\ availableYears = <<>>
  /\ selectedYear = CurrentYear
  /\ raceSchedule = <<>>
  /\ selectedRound = Null
  /\ sessionType = "Race"
  /\ resultsData = <<>>
  /\ availableSessions = <<>>
  /\ sessionsIsDefault = FALSE
  /\ loading = FALSE
  /\ sessionsLoading = FALSE
  /\ yearsPending = TRUE
  /\ schedulePending = One(ScheduleRequest(CurrentYear))
  /\ sessionsPending = EmptyBag
  /\ resultsPending = EmptyBag
  /\ ev = Event("mount", NoFetch, "-")
  /\ launched = 0

-----------------------------------------------------------------------------
(* The results Table: getColumns() and the render functions of its columns *)

\* A value a field of a row does not have.
Undefined == "undefined"

\* v || '-' for a string field: the field when it is there and non-empty.
OrDash(v) == IF v = Undefined \/ v = "" THEN "-" ELSE v

\* render: (pos) => pos || 'NC'
PositionCell(pos) == IF Truthy(pos) THEN ToString(pos) ELSE "NC"

\* The gap as fetched, whatever the position.
GapAsFetched(position, gap) == OrDash(gap)

\* render: (gap, record) => { if (record.position === 1) return '-'; return gap || '-'; }
GapCell(position, gap) == IF position = 1 THEN "-" ELSE OrDash(gap)

Column(title, dataIndex) == [title |-> title, dataIndex |-> dataIndex]

baseColumns ==
  << Column("Pos.", "position"), Column("Driver", "driver"), Column("Team", "team") >>

\* Sprint projected as the practice-style sessions are.
SprintAsPractice(key) ==
  IF key = "Race"
    THEN baseColumns \o << Column("Laps", "laps"), Column("Time", "time"),
                           Column("Gap to Leader", "gap"),
                           Column("Interval", "status"),
                           Column("Points", "points") >>
  ELSE IF key = "Qualifying"
    THEN baseColumns \o << Column("Q1", "q1"), Column("Q2", "q2"), Column("Q3", "q3") >>
  ELSE baseColumns \o << Column("Laps", "laps"), Column("Best Time", "time"),
                         Column("Gap to Fastest", "gap") >>

getColumns(key) ==
  IF key = "Race" \/ key = "Sprint"
    THEN baseColumns \o << Column("Laps", "laps"), Column("Time", "time"),
                           Column("Gap to Leader", "gap"),
                           Column(IF key = "Sprint" THEN "Status" ELSE "Interval",
                                  "status"),
                           Column("Points", "points") >>
  ELSE IF key = "Qualifying"
    THEN baseColumns \o << Column("Q1", "q1"), Column("Q2", "q2"), Column("Q3", "q3") >>
  ELSE IF key = "Sprint Qualifying"
    THEN baseColumns \o << Column("Laps", "laps"), Column("Best Time", "time"),
                           Column("Gap to Fastest", "gap") >>
  ELSE baseColumns \o << Column("Laps", "laps"), Column("Best Time", "time"),
                         Column("Gap to Fastest", "gap") >>

\* The text a column's render function gives for a record.
CellText(key, dataIndex, record) ==
  CASE dataIndex = "position" -> PositionCell(record.position)
    [] dataIndex = "driver" -> record.driver
    [] dataIndex = "team" -> record.team
    [] dataIndex = "laps" ->
         IF key = "Race" \/ key = "Sprint"
           THEN ToString(record.laps)
           ELSE IF Truthy(record.laps) THEN ToString(record.laps) ELSE "0"
    [] dataIndex = "time" -> OrDash(record.time)
    [] dataIndex = "gap" -> GapCell(record.position, record.gap)
    [] dataIndex = "status" -> OrDash(record.status)
    [] dataIndex = "points" ->
         IF Truthy(record.points) THEN ToString(record.points) ELSE "0"
    [] dataIndex = "q1" -> OrDash(record.q1)
    [] dataIndex = "q2" -> OrDash(record.q2)
    [] dataIndex = "q3" -> OrDash(record.q3)

\* <Table columns={getColumns()} dataSource={resultsData} />, for one record.
TableCells(key, record) ==
  [i \in DOMAIN getColumns(key) |->
     [dataIndex |-> getColumns(key)[i].dataIndex,
      title |-> getColumns(key)[i].title,
      text |-> CellText(key, getColumns(key)[i].dataIndex, record)]]

\* The session keys the backend and the fallback list name.
SessionKeys ==
  { "Practice 1", "Practice 2", "Practice 3", "Qualifying", "Race",
    "Sprint", "Sprint Qualifying" }

\* Rows as the results endpoints return them: a classified or unclassified
\* position, a gap and a time that are there or not.
TableRows ==
  [ position : { Null, 1, 2 }, driver : { "VER" }, team : { "Red Bull" },
    laps : { 57 }, time : { Undefined, "1:31.344" }, gap : { Undefined, "+0.291s" },
    status : { "Finished" }, points : { 25 },
    q1 : { "1:30.031" }, q2 : { Undefined }, q3 : { Undefined } ]

-----------------------------------------------------------------------------
(* ThemeContext *)

\* localStorage.getItem('theme') when nothing is stored.
NoItem == "null"

\* A first visit that starts in the light theme.
LightByDefault(savedTheme) ==
  IF savedTheme # NoItem /\ savedTheme # "" THEN savedTheme = "dark" ELSE FALSE

\* savedTheme ? savedTheme === 'dark' : true
InitialTheme(savedTheme) ==
  IF savedTheme # NoItem /\ savedTheme # "" THEN savedTheme = "dark" ELSE TRUE

\* isDarkMode ? 'dark' : 'light'
ThemeName(dark) == IF dark THEN "dark" ELSE "light"

\* What localStorage can hold when the page is loaded: nothing, or what the
\* effect has written on an earlier visit.
StoredThemes == { NoItem, "dark", "light" }

\* The page as loaded with `saved` in localStorage: the initializer reads
\* it, the effect of the first commit writes the theme back.
ThemeLoaded(saved) ==
  /\ uiEvent = "load"
  /\ themeAtLoad = saved
  /\ isDarkMode = InitialTheme(saved)
  /\ localStorageTheme = ThemeName(InitialTheme(saved))

\* The Results page on its own: no table input under study, theme as on a
\* first visit.
UiIdle ==
  /\ tableKey = "Race"
  /\ tableRow = CHOOSE r \in TableRows : r.position = 1 /\ r.gap = Undefined /\ r.time # Undefined
  /\ tableCells = <<>>
  /\ ThemeLoaded(NoItem)

-----------------------------------------------------------------------------
(* StandingsTable: formatEvo and formatPointsChange *)

\* Rank changes and point deltas of the rows run from -MaxChange to MaxChange.
MaxChange == 4

\* Math.abs
Abs(n) == IF n < 0 THEN 0 - n ELSE n

Span(color, bold, text) == [color |-> color, bold |-> bold, text |-> text]

\* A formatEvo that shows a fall with its sign.
EvoSigned(evo) ==
  IF evo > 0 THEN Span("#52c41a", TRUE, "up " \o ToString(evo))
  ELSE IF evo < 0 THEN Span("#ff4d4f", TRUE, "down " \o ToString(evo))
  ELSE Span("#8c8c8c", FALSE, "- 0")

\* The arrows are written "up" and "down".
formatEvo(evo) ==
  IF evo > 0 THEN Span("#52c41a", TRUE, "up " \o ToString(evo))
  ELSE IF evo < 0 THEN Span("#ff4d4f", TRUE, "down " \o ToString(Abs(evo)))
  ELSE Span("#8c8c8c", FALSE, "- 0")

formatPointsChange(pointsChange) ==
  IF pointsChange > 0 THEN Span("#52c41a", FALSE, "+" \o ToString(pointsChange))
  ELSE IF pointsChange < 0 THEN Span("#ff4d4f", FALSE, ToString(pointsChange))
  ELSE Span("#8c8c8c", FALSE, "0")

StandingsRows ==
  [ evo : (0 - MaxChange) .. MaxChange, points_change : (0 - MaxChange) .. MaxChange ]

\* No standings have arrived: the table has no row to show.
StandingsIdle ==
  /\ standingsRow = [evo |-> 0, points_change |-> 0]
  /\ standingsCells = <<>>

\* Results as mounted, in a run of at most MaxLaunches launches.
ViewMount ==
  /\ ResultsMount
  /\ budget = MaxLaunches
  /\ repairsSinceChange = 0

-----------------------------------------------------------------------------
(* ScheduleCard *)

\* After mount at most this many year changes reach the card.
MaxCardCalls == 3

\* One fetchData call: the two requests of its Promise.all.
CardCall(year) == [year |-> year, schedule |-> "pending", circuit |-> "pending"]

\* Promise.all: rejected as soon as one request has failed, resolved when
\* both have succeeded.
AllOutcome(call) ==
  IF call.schedule = "failed" \/ call.circuit = "failed" THEN "rejected"
  ELSE IF call.schedule = "ok" /\ call.circuit = "ok" THEN "resolved"
  ELSE "pending"

\* Both requests of the call have settled.
BothSettled(call) == call.schedule # "pending" /\ call.circuit # "pending"

\* A schedule applied as soon as its own request has succeeded.
ScheduleWhenItArrives(call, held) ==
  IF call.schedule = "ok" THEN call.year ELSE held

\* setSchedule(scheduleResponse.data), reached only when Promise.all resolved.
ScheduleAfter(call, held) ==
  IF AllOutcome(call) = "resolved" THEN call.year ELSE held

\* setCircuitInfo(circuitResponse.data), reached only when Promise.all resolved.
CircuitAfter(call, held) ==
  IF AllOutcome(call) = "resolved" THEN call.year ELSE held

CardEvent(kind, call, outcome) == [kind |-> kind, call |-> call, outcome |-> outcome]

\* The card as mounted with a year: nothing held, loading, fetchData called.
CardMount(year) ==
  /\ cardYear = year
  /\ cardSchedule = Null
  /\ cardCircuit = Null
  /\ cardLoading = TRUE
  /\ cardCalls = One(CardCall(year))
  /\ cardEv = CardEvent("mount", CardCall(year), "pending")
  /\ cardLaunched = 0

\* The year prop changes: the [year] effect calls fetchData.
CardYear(year) ==
  /\ year # cardYear
  /\ cardLaunched < MaxCardCalls
  /\ cardLaunched' = cardLaunched + 1
  /\ cardYear' = year
  /\ cardLoading' = TRUE
  /\ cardCalls' = cardCalls (+) One(CardCall(year))
  /\ cardEv' = CardEvent("year", CardCall(year), "pending")
  /\ UNCHANGED <<cardSchedule, cardCircuit>>
  /\ UNCHANGED <<vars, uiVars, standingsVars>>

\* One request of a call settles.  The step in which Promise.all settles
\* runs the rest of fetchData: both setters, or the catch, then finally.
CardSettle(call, which, outcome) ==
  /\ BagIn(call, cardCalls)
  /\ call[which] = "pending"
  /\ LET settled == [call EXCEPT ![which] = outcome]
         fires == AllOutcome(call) = "pending" /\ AllOutcome(settled) # "pending"
     IN  /\ cardSchedule' = IF fires THEN ScheduleAfter(settled, cardSchedule)
                                     ELSE cardSchedule
         /\ cardCircuit' = IF fires THEN CircuitAfter(settled, cardCircuit)
                                    ELSE cardCircuit
         /\ cardLoading' = IF fires THEN FALSE ELSE cardLoading
         /\ cardCalls' = IF BothSettled(settled)
                           THEN cardCalls (-) One(call)
                           ELSE (cardCalls (-) One(call)) (+) One(settled)
         /\ cardEv' = CardEvent("settle", settled,
                                IF fires THEN AllOutcome(settled) ELSE "none")
  /\ UNCHANGED <<cardYear, cardLaunched>>
  /\ UNCHANGED <<vars, uiVars, standingsVars>>

Init == ViewMount /\ UiIdle /\ StandingsIdle /\ CardMount(CurrentYear)

-----------------------------------------------------------------------------
(* User events *)

\* Season Select onChange (fires only for a value other than the shown one).
SelectYear(year) ==
  /\ \E i \in DOMAIN availableYears : availableYears[i] = year
  /\ year # selectedYear
  /\ Render([Current EXCEPT !.selectedYear = year, !.resultsData = <<>>])
  /\ ev' = Event("selectYear", NoFetch, year)
  /\ UNCHANGED <<availableYears, raceSchedule, yearsPending>>

\* Grand Prix Select onChange.
SelectRound(round) ==
  /\ \E i \in DOMAIN raceSchedule : raceSchedule[i].round = round
  /\ round # selectedRound
  /\ Render([Current EXCEPT !.selectedRound = round, !.resultsData = <<>>,
                            !.availableSessions = <<>>,
                            !.sessionsIsDefault = FALSE, !.refChanged = TRUE])
  /\ ev' = Event("selectRound", NoFetch, round)
  /\ UNCHANGED <<availableYears, raceSchedule, yearsPending>>

\* Session Button onClick; the buttons are shown while sessionsLoading is false.
ClickSession(key) ==
  /\ ~sessionsLoading
  /\ key \in Keys(ActiveSessions)
  /\ Render([Current EXCEPT !.sessionType = key, !.resultsData = <<>>])
  /\ ev' = Event("clickSession", NoFetch, key)
  /\ UNCHANGED <<availableYears, raceSchedule, yearsPending>>

-----------------------------------------------------------------------------
(* Settled requests *)

YearsOk(years) ==
  /\ yearsPending
  /\ yearsPending' = FALSE
  /\ availableYears' = years
  /\ Render([Current EXCEPT !.selectedYear = YearAfterYears(years, selectedYear)])
  /\ ev' = Event("yearsOk", NoFetch, years)
  /\ UNCHANGED raceSchedule

YearsFail ==
  /\ yearsPending
  /\ yearsPending' = FALSE
  /\ Render(Current)
  /\ ev' = Event("yearsFail", NoFetch, "-")
  /\ UNCHANGED <<availableYears, raceSchedule>>

ScheduleOk(f, data) ==
  /\ BagIn(f, schedulePending)
  /\ raceSchedule' = data
  /\ Render([Current EXCEPT !.selectedRound = RoundAfterSchedule(data, selectedRound),
                            !.schedulePending = schedulePending (-) One(f)])
  /\ ev' = Event("scheduleOk", f, data)
  /\ UNCHANGED <<availableYears, yearsPending>>

\* A catch branch that empties the schedule list.
ScheduleFailClears(f) ==
  /\ BagIn(f, schedulePending)
  /\ raceSchedule' = <<>>
  /\ Render([Current EXCEPT !.schedulePending = schedulePending (-) One(f)])
  /\ ev' = Event("scheduleFail", f, "-")
  /\ UNCHANGED <<availableYears, yearsPending>>

\* catch: console.error only.
ScheduleFail(f) ==
  /\ BagIn(f, schedulePending)
  /\ Render([Current EXCEPT !.schedulePending = schedulePending (-) One(f)])
  /\ ev' = Event("scheduleFail", f, "-")
  /\ UNCHANGED <<availableYears, raceSchedule, yearsPending>>

\* A response that is dropped when its request no longer matches the selection.
AppliedIfCurrent(f, formatted) ==
  IF f.year = selectedYear /\ f.round = selectedRound
    THEN formatted ELSE availableSessions

\* setAvailableSessions(formattedSessions): whatever round is selected by now.
AppliedSessions(f, formatted) == formatted

\* A catch branch that keeps the list it finds.
KeptSessions(sessions) == sessions

\* catch: setAvailableSessions(defaultSessionTypes), whatever the list was.
FailureSessions(sessions) == defaultSessionTypes

SessionsOk(f, sessions) ==
  /\ BagIn(f, sessionsPending)
  /\ LET formatted == FormatSessions(sessions) IN
     Render([Current EXCEPT
               !.availableSessions = AppliedSessions(f, formatted),
               !.sessionsIsDefault = FALSE,
               !.refChanged = TRUE,
               !.sessionType = RepairedSessionType(formatted, f.sessionType, sessionType),
               !.sessionsLoading = FALSE,
               !.sessionsPending = sessionsPending (-) One(f)])
  /\ ev' = Event("sessionsOk", f, sessions)
  /\ UNCHANGED <<availableYears, raceSchedule, yearsPending>>

\* catch: setAvailableSessions(defaultSessionTypes)
SessionsFail(f) ==
  /\ BagIn(f, sessionsPending)
  /\ Render([Current EXCEPT
               !.availableSessions = FailureSessions(availableSessions),
               !.sessionsIsDefault = TRUE,
               !.refChanged = ~sessionsIsDefault,
               !.sessionsLoading = FALSE,
               !.sessionsPending = sessionsPending (-) One(f)])
  /\ ev' = Event("sessionsFail", f, "-")
  /\ UNCHANGED <<availableYears, raceSchedule, yearsPending>>

ResultsOk(f, resp) ==
  /\ BagIn(f, resultsPending)
  /\ Render([Current EXCEPT !.resultsData = ResultRows(f, resp),
                            !.loading = FALSE,
                            !.resultsPending = resultsPending (-) One(f)])
  /\ ev' = Event("resultsOk", f, resp)
  /\ UNCHANGED <<availableYears, raceSchedule, yearsPending>>

\* A catch branch that leaves the rows on display.
KeptRows(rows) == rows

\* catch: setResultsData([]), whatever the rows were.
FailureRows(rows) == <<>>

\* A failure path without the finally block: the flag stays as it is.
ResultsFailKeepsLoading(f) ==
  /\ BagIn(f, resultsPending)
  /\ Render([Current EXCEPT !.resultsData = FailureRows(resultsData),
                            !.resultsPending = resultsPending (-) One(f)])
  /\ ev' = Event("resultsFail", f, "-")
  /\ UNCHANGED <<availableYears, raceSchedule, yearsPending>>

ResultsFail(f) ==
  /\ BagIn(f, resultsPending)
  /\ Render([Current EXCEPT !.resultsData = FailureRows(resultsData),
                            !.loading = FALSE,
                            !.resultsPending = resultsPending (-) One(f)])
  /\ ev' = Event("resultsFail", f, "-")
  /\ UNCHANGED <<availableYears, raceSchedule, yearsPending>>

-----------------------------------------------------------------------------

Years == { 2024, 2025, CurrentYear }
Rounds == { 1, 2 }
\* The session buttons the user clicks, when the active list shows them.
ClickedKeys == { "Race", "Qualifying", "Sprint" }

\* The repairs are counted only in the runs of QuietSpec.
Uncounted == UNCHANGED repairsSinceChange

Next ==
  \/ \E year \in Years : SelectYear(year) /\ Uncounted
  \/ \E round \in Rounds : SelectRound(round) /\ Uncounted
  \/ \E key \in ClickedKeys : ClickSession(key) /\ Uncounted
  \/ \E years \in YearResponses : YearsOk(years) /\ Uncounted
  \/ YearsFail /\ Uncounted
  \/ \E f \in BagToSet(schedulePending) :
       \E data \in ScheduleResponses(f.year) : ScheduleOk(f, data) /\ Uncounted
  \/ \E f \in BagToSet(schedulePending) : ScheduleFail(f) /\ Uncounted
  \/ \E f \in BagToSet(sessionsPending) :
       \E sessions \in SessionResponses : SessionsOk(f, sessions) /\ Uncounted
  \/ \E f \in BagToSet(sessionsPending) : SessionsFail(f) /\ Uncounted
  \/ \E f \in BagToSet(resultsPending) :
       \E resp \in ResultResponses : ResultsOk(f, resp) /\ Uncounted
  \/ \E f \in BagToSet(resultsPending) : ResultsFail(f) /\ Uncounted

Spec == Init /\ [][Next]_vars

-----------------------------------------------------------------------------
(* Runs against a backend that answers every request, with the same        *)
(* schedule for a year and the same session list for a (year, round)       *)

\* Launches allowed in these runs.
MaxQuietLaunches == 9

YearsOf == <<2024, 2025>>

ScheduleOf(year) == << [season |-> year, round |-> 1], [season |-> year, round |-> 2] >>

\* Round 1 is a practice-only weekend, round 2 a sprint weekend.
SessionsOf(year, round) == IF round = 1 THEN PracticeOnly ELSE SprintWeekend

QuietInit ==
  /\ ResultsMount
  /\ budget = MaxQuietLaunches
  /\ repairsSinceChange = 0
  /\ UiIdle
  /\ StandingsIdle
  /\ CardMount(CurrentYear)

\* A step that changes the year or the round, or a click on a session
\* button, starts the count again; a session-list response that changes
\* the session key is a repair.
Counted ==
  repairsSinceChange' =
    IF \/ ev'.kind \in { "selectYear", "selectRound", "clickSession" }
       \/ selectedYear' # selectedYear
       \/ selectedRound' # selectedRound
      THEN 0
    ELSE IF ev'.kind = "sessionsOk" /\ sessionType' # sessionType
      THEN repairsSinceChange + 1
    ELSE repairsSinceChange

QuietNext ==
  \/ \E year \in Years : SelectYear(year) /\ Counted
  \/ \E round \in Rounds : SelectRound(round) /\ Counted
  \/ \E key \in ClickedKeys : ClickSession(key) /\ Counted
  \/ YearsOk(YearsOf) /\ Counted
  \/ \E f \in BagToSet(schedulePending) : ScheduleOk(f, ScheduleOf(f.year)) /\ Counted
  \/ \E f \in BagToSet(sessionsPending) :
       SessionsOk(f, SessionsOf(f.year, f.round)) /\ Counted
  \/ \E f \in BagToSet(resultsPending) : ResultsOk(f, "rows") /\ Counted

QuietSpec == QuietInit /\ [][QuietNext]_vars

-----------------------------------------------------------------------------
(* The table and the theme of the page, with the Results state as mounted *)

UiInit ==
  /\ ViewMount
  /\ tableKey \in SessionKeys
  /\ tableRow \in TableRows
  /\ tableCells = <<>>
  /\ \E saved \in StoredThemes : ThemeLoaded(saved)
  /\ StandingsIdle
  /\ CardMount(CurrentYear)

\* A render of the Table with the session key and the row it is given.
RenderTable ==
  /\ tableCells' = TableCells(tableKey, tableRow)
  /\ uiEvent' = "renderTable"
  /\ UNCHANGED <<tableKey, tableRow, isDarkMode, localStorageTheme, themeAtLoad>>
  /\ UNCHANGED <<vars, standingsVars, cardVars>>

\* toggleTheme, the commit and the [isDarkMode] effect that stores the theme.
ToggleTheme ==
  /\ isDarkMode' = ~isDarkMode
  /\ localStorageTheme' = ThemeName(~isDarkMode)
  /\ uiEvent' = "toggleTheme"
  /\ UNCHANGED <<tableKey, tableRow, tableCells, themeAtLoad>>
  /\ UNCHANGED <<vars, standingsVars, cardVars>>

\* A reload of the page: the initializer reads localStorage, the effect of
\* the first commit writes the theme back; the table is empty until the
\* next rows, for whatever key and row come, are rendered.
Reload(key, row) ==
  /\ themeAtLoad' = localStorageTheme
  /\ isDarkMode' = InitialTheme(localStorageTheme)
  /\ localStorageTheme' = ThemeName(InitialTheme(localStorageTheme))
  /\ uiEvent' = "load"
  /\ tableKey' = key
  /\ tableRow' = row
  /\ tableCells' = <<>>
  /\ UNCHANGED <<vars, standingsVars, cardVars>>

UiNext ==
  \/ RenderTable
  \/ ToggleTheme
  \/ \E key \in SessionKeys : \E row \in TableRows : Reload(key, row)

UiSpec == UiInit /\ [][UiNext]_<<vars, uiVars>>

-----------------------------------------------------------------------------
(* The standings table, with the rest of the page as mounted *)

StandingsInit ==
  /\ ViewMount
  /\ UiIdle
  /\ standingsRow \in StandingsRows
  /\ standingsCells = <<>>
  /\ CardMount(CurrentYear)

\* columns: render: (pointsChange) => formatPointsChange(pointsChange),
\*          render: (evo) => formatEvo(evo)
RenderStandings ==
  /\ standingsCells' = << formatPointsChange(standingsRow.points_change),
                          formatEvo(standingsRow.evo) >>
  /\ UNCHANGED <<standingsRow, vars, uiVars, cardVars>>

\* setDrivers(res.data) / setConstructors(res.data): new rows, rendered.
StandingsArrive(row) ==
  /\ row # standingsRow
  /\ standingsRow' = row
  /\ standingsCells' = << formatPointsChange(row.points_change), formatEvo(row.evo) >>
  /\ UNCHANGED <<vars, uiVars, cardVars>>

StandingsNext ==
  \/ RenderStandings
  \/ \E row \in StandingsRows : StandingsArrive(row)

StandingsSpec == StandingsInit /\ [][StandingsNext]_<<vars, uiVars, standingsVars>>

-----------------------------------------------------------------------------
(* The schedule card, with the rest of the page as mounted *)

CardInit ==
  /\ ViewMount
  /\ UiIdle
  /\ StandingsIdle
  /\ \E year \in Years : CardMount(year)

CardNext ==
  \/ \E year \in Years : CardYear(year)
  \/ \E call \in BagToSet(cardCalls) :
       \E which \in { "schedule", "circuit" } :
         \E outcome \in { "ok", "failed" } : CardSettle(call, which, outcome)

CardSpec == CardInit /\ [][CardNext]_cardVars

-----------------------------------------------------------------------------
(* Properties *)

NoRequestInFlight ==
  /\ ~yearsPending
  /\ schedulePending = EmptyBag
  /\ sessionsPending = EmptyBag
  /\ resultsPending = EmptyBag

\* "Race" if the list holds it, else the key of the list's first entry.
RaceOrFirst(list) == IF "Race" \in Keys(list) THEN "Race" ELSE list[1].key

\* The (year, round, session) triple a results request was launched for.
TripleOf(f) == <<f.year, f.round, f.sessionType>>

SelectedTriple == <<selectedYear, selectedRound, sessionType>>

Seasons(schedule) == { schedule[i].season : i \in DOMAIN schedule }

\* C1: in every reachable state the selected session key is the key of an
\* entry of the active session list (the dynamic list if it is non-empty,
\* the static fallback otherwise).
C1_SelectedKeyInActiveList == sessionType \in Keys(ActiveSessions)

\* C2: whenever the active session list changes (a dynamic list applied, the
\* dynamic list cleared, the fallback substituted) and the new active list
\* does not hold the current session key, the key becomes "Race" if the new
\* list holds it and otherwise the key of the new list's first entry.
C2_RepairOnEveryChange ==
  [][ ( /\ ActiveList(availableSessions') # ActiveSessions
        /\ sessionType \notin Keys(ActiveList(availableSessions')) )
      => sessionType' = RaceOrFirst(ActiveList(availableSessions')) ]_vars

\* C3: once the results request launched for the selected (year, round,
\* session) triple has settled (none for that triple is in flight), the rows
\* on display are rows returned for that triple, not rows of another one.
C3_RowsOfSelectedTriple ==
  ( /\ Truthy(selectedRound)
    /\ \A f \in BagToSet(resultsPending) : TripleOf(f) # SelectedTriple
    /\ resultsData # <<>> )
  => TripleOf(resultsData[1]) = SelectedTriple

\* C4: a session-list response is applied whatever is selected when it
\* arrives: the response to a request launched for a round that is no longer
\* the selected one becomes the dynamic list (and the session key is repaired
\* against it) while the selected round stays what it is.
C4_StaleSessionsApplied ==
  [][ ( /\ ev'.kind = "sessionsOk"
        /\ ev'.fetch.round # selectedRound )
      => /\ availableSessions' = FormatSessions(ev'.resp)
         /\ selectedRound' = selectedRound
         /\ ( /\ Len(ev'.resp) > 0
              /\ ev'.fetch.sessionType \notin Keys(FormatSessions(ev'.resp)) )
            => sessionType' \in Keys(FormatSessions(ev'.resp)) ]_vars

\* The list of another round of the selected year is on display and no
\* session-list request is left in flight to replace it.
C4_Witness ==
  /\ ev.kind = "sessionsOk"
  /\ ev.fetch.year = selectedYear
  /\ ev.fetch.round # selectedRound
  /\ Len(availableSessions) > 0
  /\ availableSessions = FormatSessions(ev.resp)
  /\ sessionsPending = EmptyBag

\* C5: every change of the selected round clears the result rows and the
\* dynamic session list in the same step.
C5_RoundChangeClears ==
  [][ selectedRound' # selectedRound
      => (resultsData' = <<>> /\ availableSessions' = <<>>) ]_vars

\* C6: every change of the selected session key clears the result rows in
\* the same step.
C6_KeyChangeClearsRows ==
  [][ sessionType' # sessionType => resultsData' = <<>> ]_vars

\* C7: once the schedule of the selected year is the schedule list, no
\* order of resolution leaves another year's schedule in the list when the
\* schedule requests have all settled and the year is still selected.
C7_ScheduleOfSelectedYear ==
  [][ ( /\ raceSchedule # <<>>
        /\ Seasons(raceSchedule) = {selectedYear}
        /\ selectedYear' = selectedYear
        /\ raceSchedule' # <<>>
        /\ schedulePending' = EmptyBag
        /\ ~yearsPending' )
      => Seasons(raceSchedule') = {selectedYear'} ]_vars

\* C8: when the schedule fetched for the selected year is empty, the schedule
\* list becomes empty and the selected round is unset; and no turn that
\* leaves the round unset launches a session-list or results request.
C8_EmptyScheduleUnsetsRound ==
  [][ /\ ( /\ ev'.kind = "scheduleOk"
           /\ ev'.fetch.year = selectedYear
           /\ ev'.resp = <<>> )
         => (raceSchedule' = <<>> /\ selectedRound' = Null)
      /\ selectedRound' = Null
         => /\ BagCardinality(sessionsPending') <= BagCardinality(sessionsPending)
            /\ BagCardinality(resultsPending') <= BagCardinality(resultsPending)
    ]_vars

\* C9: a failed session-list request leaves exactly the static fallback as
\* the active list, whatever the dynamic list was, and leaves the session key
\* as it was; a response with an empty list leaves the fallback active too.
C9_SessionFallback ==
  [][ /\ ev'.kind = "sessionsFail"
         => /\ ActiveList(availableSessions') = defaultSessionTypes
            /\ Keys(ActiveList(availableSessions')) =
                 {"Practice 1", "Practice 2", "Practice 3", "Qualifying", "Race"}
            /\ sessionType' = sessionType
      /\ (ev'.kind = "sessionsOk" /\ ev'.resp = <<>>)
         => ActiveList(availableSessions') = defaultSessionTypes ]_vars

\* A request failed while a key the fallback does not hold was selected:
\* the fallback is active and the key is still that key.
C9_Witness ==
  /\ ev.kind = "sessionsFail"
  /\ ActiveSessions = defaultSessionTypes
  /\ sessionType = "Sprint"

\* C10: when the available-years request resolves, the year list is the
\* response and, if it is non-empty, the selected year is the largest year of
\* the response; if it is empty the selected year is unchanged.
C10_YearDefault ==
  [][ ev'.kind = "yearsOk"
      => /\ availableYears' = ev'.resp
         /\ Len(ev'.resp) > 0
            => /\ \E i \in DOMAIN ev'.resp : selectedYear' = ev'.resp[i]
               /\ \A i \in DOMAIN ev'.resp : ev'.resp[i] <= selectedYear'
         /\ Len(ev'.resp) = 0 => selectedYear' = selectedYear ]_vars

\* The years arrived, the largest is not the first, and it is selected.
C10_Witness ==
  /\ ev.kind = "yearsOk"
  /\ Len(availableYears) > 1
  /\ selectedYear # availableYears[1]
  /\ \A i \in DOMAIN availableYears : availableYears[i] <= selectedYear

-----------------------------------------------------------------------------

YearSet == { availableYears[i] : i \in DOMAIN availableYears }

\* The requests a step has put in flight.
LaunchedBy(before, after) ==
  { f \in BagToSet(after) : CopiesIn(f, after) > CopiesIn(f, before) }

\* C11: once the available-years query has returned a (non-empty) set, the
\* selected year is a member of it and every schedule, session-list and
\* results request in flight was launched for a year of that set.
C11_YearsOfTheSet ==
  availableYears # <<>>
  => /\ selectedYear \in YearSet
     /\ \A f \in BagToSet(schedulePending) : f.year \in YearSet
     /\ \A f \in BagToSet(sessionsPending) : f.year \in YearSet
     /\ \A f \in BagToSet(resultsPending) : f.year \in YearSet

\* C12: a session-list request for (year, round) is launched only when the
\* schedule on display is that year's, holds that round, and no schedule
\* request for that year is in flight; a results request for (year, round,
\* session) is launched only when no session-list request for that
\* (year, round) is in flight.
C12_CascadeOrder ==
  [][ /\ \A g \in LaunchedBy(sessionsPending, sessionsPending') :
           /\ \E i \in DOMAIN raceSchedule' :
                /\ raceSchedule'[i].season = g.year
                /\ raceSchedule'[i].round = g.round
           /\ \A h \in BagToSet(schedulePending') : h.year # g.year
      /\ \A f \in LaunchedBy(resultsPending, resultsPending') :
           \A g \in BagToSet(sessionsPending') :
             ~(g.year = f.year /\ g.round = f.round) ]_vars

\* C13: the endpoint a results request calls depends on the session key
\* alone: "Race" calls race-results with (year, round) and the rows are the
\* body's `results`, or none when the body has no such field; "Qualifying"
\* calls qualifying-results with (year, round) and the rows are the body;
\* every other key, "Sprint" included, calls practice-results with
\* (year, round, short code) and the rows are the body.
C13_EndpointByKey ==
  [][ /\ \A f \in BagToSet(resultsPending') :
           /\ f.sessionType = "Race"
              => f.endpoint = "race-results" /\ f.params = <<f.year, f.round>>
           /\ f.sessionType = "Qualifying"
              => f.endpoint = "qualifying-results" /\ f.params = <<f.year, f.round>>
           /\ f.sessionType \notin { "Race", "Qualifying" }
              => /\ f.endpoint = "practice-results"
                 /\ f.params = <<f.year, f.round, f.sessionValue>>
      /\ ev'.kind = "resultsOk"
         => LET body == ResponseBody(ev'.fetch, ev'.resp) IN
            /\ (ev'.fetch.sessionType = "Race" /\ "results" \in DOMAIN body)
               => resultsData' = body.results
            /\ (ev'.fetch.sessionType = "Race" /\ "results" \notin DOMAIN body)
               => resultsData' = <<>>
            /\ (ev'.fetch.sessionType # "Race" /\ body.type = "array")
               => resultsData' = body.items
            /\ (ev'.fetch.sessionType # "Race" /\ body.type = "null")
               => resultsData' = <<>> ]_vars

\* A sprint request, sent to practice-results with its short code, has been
\* answered with rows and they are on display.
C13_Witness ==
  /\ ev.kind = "resultsOk"
  /\ ev.fetch.sessionType = "Sprint"
  /\ ev.fetch.endpoint = "practice-results"
  /\ ev.fetch.params = <<ev.fetch.year, ev.fetch.round, "S">>
  /\ resultsData # <<>>
  /\ resultsData[1].endpoint = "practice-results"

\* C14: a practice-style results request whose session key is an entry of
\* the static fallback list is never launched with an undefined short code:
\* when the active list does not hold the key, the short code is the value
\* of the fallback's entry for it.
C14_ShortCodeFromEitherList ==
  \A f \in BagToSet(resultsPending) :
    ( /\ f.endpoint = "practice-results"
      /\ SomeKey(defaultSessionTypes, f.sessionType) )
    => f.sessionValue = FindKey(defaultSessionTypes, f.sessionType).value

\* C15: when a results request fails the rows become empty, exactly one
\* error notification is raised, the loading flag is lowered, and the year,
\* the round, the session key, the schedule and the session list are left
\* as they were.
C15_ResultsFailure ==
  [][ ev'.kind = "resultsFail"
      => /\ resultsData' = <<>>
         /\ ev'.messages = 1
         /\ loading' = FALSE
         /\ UNCHANGED <<selectedYear, selectedRound, sessionType,
                        raceSchedule, availableSessions>> ]_vars

\* A results request failed with a dynamic session list and a round on
\* display: the rows are gone, the notification was raised, the rest stays.
C15_Witness ==
  /\ ev.kind = "resultsFail"
  /\ ev.messages = 1
  /\ resultsData = <<>>
  /\ ~loading
  /\ availableSessions # <<>>
  /\ Truthy(selectedRound)

\* C16: when the available-years request or a schedule request fails, the
\* year list, the selected year, the schedule list, the selected round, the
\* session key, the session list and the rows are all left as they were.
C16_UpstreamFailureFrame ==
  [][ ev'.kind \in { "yearsFail", "scheduleFail" }
      => UNCHANGED <<availableYears, selectedYear, raceSchedule, selectedRound,
                     sessionType, availableSessions, resultsData>> ]_vars

\* A schedule request failed while a schedule, a round, a dynamic session
\* list and rows were on display, and they still are.
C16_Witness ==
  /\ ev.kind = "scheduleFail"
  /\ raceSchedule # <<>>
  /\ Truthy(selectedRound)
  /\ availableSessions # <<>>
  /\ resultsData # <<>>

\* A change of the year selector, the round selector or the session selector.
SelectorChange ==
  \/ \E year \in Years : SelectYear(year)
  \/ \E round \in Rounds : SelectRound(round)
  \/ \E key \in ClickedKeys : ClickSession(key)

\* The most requests one selector change launches: a schedule request,
\* a session-list request and a results request.
LaunchesPerChange == 3

\* A step that puts a request of the kind that failed in flight.
Relaunches(kind) ==
  CASE kind = "yearsFail" -> ~yearsPending /\ yearsPending'
    [] kind = "scheduleFail" -> LaunchedBy(schedulePending, schedulePending') # {}
    [] kind = "sessionsFail" -> LaunchedBy(sessionsPending, sessionsPending') # {}
    [] kind = "resultsFail" -> LaunchedBy(resultsPending, resultsPending') # {}

\* C17: in every state reached by a failed request (and with the launches a
\* selector change needs still allowed) the user has a selector change that
\* launches a request of the failed kind again.
C17_Recoverable ==
  ( /\ ev.kind \in { "yearsFail", "scheduleFail", "sessionsFail", "resultsFail" }
    /\ launched + LaunchesPerChange <= MaxLaunches )
  => ENABLED (SelectorChange /\ Relaunches(ev.kind))

DataIndexes(cells) == [i \in DOMAIN cells |-> cells[i].dataIndex]

\* The cell of a column, for a table that has the column.
CellOf(cells, dataIndex) ==
  cells[CHOOSE i \in DOMAIN cells : cells[i].dataIndex = dataIndex].text

HasColumn(cells, dataIndex) == \E i \in DOMAIN cells : cells[i].dataIndex = dataIndex

\* C18: in every table that has a gap column, the gap cell of a row whose
\* position is 1 is "-" whatever gap was fetched, and the gap cell of any
\* other row is the fetched gap, or "-" when the row has none.
C18_GapSuppression ==
  HasColumn(tableCells, "gap")
  => /\ tableRow.position = 1 => CellOf(tableCells, "gap") = "-"
     /\ (tableRow.position # 1 /\ tableRow.gap # Undefined)
        => CellOf(tableCells, "gap") = tableRow.gap
     /\ (tableRow.position # 1 /\ tableRow.gap = Undefined)
        => CellOf(tableCells, "gap") = "-"

\* The leader's row of a practice table carries a gap and shows "-".
C18_Witness ==
  /\ tableKey = "Practice 1"
  /\ HasColumn(tableCells, "gap")
  /\ tableRow.position = 1
  /\ tableRow.gap # Undefined
  /\ CellOf(tableCells, "gap") = "-"

\* C19: the columns of a rendered table are a function of the session key:
\* position, driver, team first (a blank position shown as "NC"); then
\* laps, time, gap, status, points for "Race" and "Sprint"; Q1, Q2, Q3 for
\* "Qualifying"; laps, time, gap for every other key.
C19_ColumnsByKey ==
  tableCells # <<>>
  => /\ DataIndexes(tableCells) =
          <<"position", "driver", "team">> \o
          ( IF tableKey \in { "Race", "Sprint" }
              THEN <<"laps", "time", "gap", "status", "points">>
            ELSE IF tableKey = "Qualifying"
              THEN <<"q1", "q2", "q3">>
            ELSE <<"laps", "time", "gap">> )
     /\ ~Truthy(tableRow.position) => tableCells[1].text = "NC"
     /\ Truthy(tableRow.position) => tableCells[1].text = ToString(tableRow.position)

\* A sprint table of eight columns for an unclassified row.
C19_Witness ==
  /\ tableKey = "Sprint"
  /\ Len(tableCells) = 8
  /\ tableCells[1].text = "NC"
  /\ tableCells[7].dataIndex = "status"

\* C20: a page loaded with nothing stored starts dark and one loaded with a
\* stored theme starts with it; in every state the stored value is "dark"
\* or "light" and names the current theme; a reload leaves the theme what
\* it was before the reload.
C20_ThemePersistence ==
  /\ [] ( /\ (uiEvent = "load" /\ themeAtLoad = NoItem) => isDarkMode
          /\ (uiEvent = "load" /\ themeAtLoad # NoItem)
             => ThemeName(isDarkMode) = themeAtLoad
          /\ localStorageTheme \in { "dark", "light" }
          /\ localStorageTheme = ThemeName(isDarkMode) )
  /\ [][ uiEvent' = "load" => isDarkMode' = isDarkMode ]_<<vars, uiVars>>

\* The page was loaded with "light" stored and shows the light theme.
C20_Witness ==
  /\ uiEvent = "load"
  /\ themeAtLoad = "light"
  /\ ~isDarkMode
  /\ localStorageTheme = "light"

\* C21: a rendered standings row shows a positive rank change or point
\* delta in the positive colour with its magnitude (after an up arrow, after
\* a plus sign), a negative one in the negative colour with its absolute
\* magnitude (after a down arrow, after a minus sign), and zero in the
\* neutral colour as a literal zero.
C21_ChangeBySign ==
  standingsCells # <<>>
  => LET pc == standingsRow.points_change
         evo == standingsRow.evo
         pcCell == standingsCells[1]
         evoCell == standingsCells[2]
     IN  /\ evo > 0 => evoCell.color = "#52c41a" /\ evoCell.text = "up " \o ToString(evo)
         /\ evo < 0 => /\ evoCell.color = "#ff4d4f"
                       /\ evoCell.text = "down " \o ToString(0 - evo)
         /\ evo = 0 => evoCell.color = "#8c8c8c" /\ evoCell.text = "- 0"
         /\ pc > 0 => pcCell.color = "#52c41a" /\ pcCell.text = "+" \o ToString(pc)
         /\ pc < 0 => /\ pcCell.color = "#ff4d4f"
                      /\ pcCell.text = "-" \o ToString(0 - pc)
         /\ pc = 0 => pcCell.color = "#8c8c8c" /\ pcCell.text = "0"

\* A row that fell two ranks and lost three points is on display.
C21_Witness ==
  /\ standingsRow = [evo |-> 0 - 2, points_change |-> 0 - 3]
  /\ standingsCells # <<>>
  /\ standingsCells[2].text = "down 2"
  /\ standingsCells[1].text = "-3"

\* The pieces of state the completion of each kind of request sets.
WrittenBy ==
  [ years |-> { "availableYears", "selectedYear" },
    schedule |-> { "raceSchedule", "selectedRound" },
    sessions |-> { "availableSessions", "sessionType" },
    results |-> { "resultsData" } ]

\* How many requests in flight will set a piece when they complete.
PendingWriters(piece) ==
  (IF piece \in WrittenBy.years /\ yearsPending THEN 1 ELSE 0)
  + (IF piece \in WrittenBy.schedule THEN BagCardinality(schedulePending) ELSE 0)
  + (IF piece \in WrittenBy.sessions THEN BagCardinality(sessionsPending) ELSE 0)
  + (IF piece \in WrittenBy.results THEN BagCardinality(resultsPending) ELSE 0)

\* C22: at any moment each of the year list, the selected year, the
\* schedule list, the selected round, the session list, the session key and
\* the rows is set by the completion of at most one request in flight.
C22_OneWriterPerPiece ==
  \A piece \in UNION { WrittenBy[k] : k \in DOMAIN WrittenBy } :
    PendingWriters(piece) <= 1

\* C23: while a results request is in flight the results loading flag is
\* true, and while a session-list request is in flight the session loading
\* flag is true, also when several requests of a kind overlap.
C23_LoadingWhileInFlight ==
  /\ resultsPending # EmptyBag => loading
  /\ sessionsPending # EmptyBag => sessionsLoading

\* C26: whenever no results request is in flight the results loading flag
\* is false and whenever no session-list request is in flight the session
\* loading flag is false; while no round is set, so that every call returns
\* at its guard, neither flag is raised.
C26_IdleFlagsLowered ==
  /\ resultsPending = EmptyBag => ~loading
  /\ sessionsPending = EmptyBag => ~sessionsLoading
  /\ ~Truthy(selectedRound) => ~loading /\ ~sessionsLoading

\* The last of several results requests has failed, nothing is in flight
\* and both flags are down.
C26_Witness ==
  /\ ev.kind = "resultsFail"
  /\ launched >= 4
  /\ resultsPending = EmptyBag
  /\ sessionsPending = EmptyBag
  /\ ~loading
  /\ ~sessionsLoading

FailureKinds == { "yearsFail", "scheduleFail", "sessionsFail", "resultsFail" }

\* C24 as stated: a step in which a request fails launches no request of
\* any kind.
C24_NoLaunchOnFailure ==
  [][ ev'.kind \in FailureKinds => launched' = launched ]_vars

\* C24, amended: a step in which a request fails launches no years,
\* schedule or session-list request, so the failed request is never tried
\* again; it launches no request at all except that a failed session-list
\* request, when it replaces the list held by the fallback list, launches
\* one results request for the selected triple.
C24_NoRetry ==
  [][ ev'.kind \in FailureKinds
      => /\ yearsPending' => yearsPending
         /\ LaunchedBy(schedulePending, schedulePending') = {}
         /\ LaunchedBy(sessionsPending, sessionsPending') = {}
         /\ ev'.kind = "sessionsFail"
            => sessionsPending' = sessionsPending (-) One(ev'.fetch)
         /\ ev'.kind # "sessionsFail" => launched' = launched
         /\ ev'.kind = "sessionsFail"
            => /\ launched' = launched + (IF sessionsIsDefault THEN 0 ELSE 1)
               /\ ~sessionsIsDefault
                  => resultsPending' =
                       resultsPending (+)
                       One(ResultsRequest(selectedYear, selectedRound, sessionType,
                                          defaultSessionTypes)) ]_vars

\* A session-list request has failed and the results request of the
\* selected triple, launched with the fallback's short code when the round
\* was selected, is in flight a second time.
C24_Witness ==
  /\ ev.kind = "sessionsFail"
  /\ sessionsIsDefault
  /\ CopiesIn(ResultsRequest(selectedYear, selectedRound, sessionType,
                             defaultSessionTypes), resultsPending) >= 2

\* C25: against a backend that answers every request and returns the same
\* session list for the same (year, round), at most one session-key repair
\* happens after a selector change, until the next one.
C25_OneRepairPerChange == repairsSinceChange <= 1

\* C27: with year and round set, every step that changes the session key
\* launches a session-list request for the (year, round) and a results
\* request for the triple then selected, and every step that applies a
\* session-list response launches a results request for the triple then
\* selected, also when the list applied equals the list held.
C27_TriggerCoupling ==
  [][ /\ ( /\ sessionType' # sessionType
           /\ Truthy(selectedYear') /\ Truthy(selectedRound') )
         => /\ SessionsRequest(selectedYear', selectedRound', sessionType')
                 \in LaunchedBy(sessionsPending, sessionsPending')
            /\ ResultsRequest(selectedYear', selectedRound', sessionType',
                              availableSessions')
                 \in LaunchedBy(resultsPending, resultsPending')
      /\ ev'.kind = "sessionsOk"
         => ResultsRequest(selectedYear', selectedRound', sessionType',
                           availableSessions')
              \in LaunchedBy(resultsPending, resultsPending') ]_vars

\* A session-list response has been applied and the results request of the
\* selected triple, with the list's short code, is in flight a second time.
C27_Witness ==
  /\ ev.kind = "sessionsOk"
  /\ availableSessions # <<>>
  /\ availableSessions = FormatSessions(ev.resp)
  /\ sessionType = "Sprint"
  /\ CopiesIn(ResultsRequest(selectedYear, selectedRound, sessionType,
                             availableSessions), resultsPending) >= 2

\* C28: the card's weekend schedule and circuit info change only in the
\* step in which both requests of a call have succeeded, and then both
\* become that call's year's; a step in which a call fails leaves both as
\* they were; the loading flag is false after every step in which a call's
\* pair of requests resolves or rejects, and whenever no call is left with
\* a request in flight.
C28_CardPairTogether ==
  [][ /\ (cardSchedule' # cardSchedule \/ cardCircuit' # cardCircuit)
         => /\ cardEv'.outcome = "resolved"
            /\ cardSchedule' = cardEv'.call.year
            /\ cardCircuit' = cardEv'.call.year
      /\ cardEv'.outcome = "rejected" => UNCHANGED <<cardSchedule, cardCircuit>>
      /\ cardEv'.outcome \in { "resolved", "rejected" } => ~cardLoading'
      /\ cardCalls' = EmptyBag => ~cardLoading' ]_cardVars

\* A call failed after another year's pair had been applied: the pair held
\* is still that year's, and the flag is down.
C28_Witness ==
  /\ cardEv.kind = "settle"
  /\ cardEv.outcome = "rejected"
  /\ cardSchedule # Null
  /\ cardSchedule = cardCircuit
  /\ cardSchedule # cardEv.call.year
  /\ ~cardLoading

====
